---- MODULE Spec2Model ----
(***************************************************************************)
(* The Snake environment (src/snake_game/game.py and its two reward-shaped *)
(* copies in src/snake_game_dqn and src/snake_game_tabular_q_earning) and  *)
(* the tabular Q-learning update (src/snake_game/agent.py).                *)
(*                                                                         *)
(* A cell is the pair <<x, y>> of pixel coordinates the code keeps in a    *)
(* two-element list; the snake is the head-first sequence of its cells.    *)
(***************************************************************************)
EXTENDS Integers, Sequences, FiniteSets, TLC

\* ------------------------------------------------------------------------
\* Board.  The constructor takes width, height and block_size; the defaults
\* come from constants.py.  The board is kept small here: HalfCellsW and
\* HalfCellsH count the cells on each side of the starting head.
HalfCellsW == 2
HalfCellsH == 1

\* Episodes are followed until the score reaches MaxScore.
MaxScore == 2

BLOCK_SIZE == 20

block_size == BLOCK_SIZE
width == 2 * HalfCellsW * block_size
height == 2 * HalfCellsH * block_size

\* The values a caller passes as action: 0, 1, 2 and one value outside the
\* documented range, which _move treats like 0 (its else branch).
ActionInputs == {0, 1, 2, 3}

VARIABLES
    shaping,     \* FALSE: snake_game/game.py; TRUE: the distance-shaped copies
    direction,   \* self.direction
    head,        \* self.head
    snake,       \* self.snake
    food,        \* self.food
    score,       \* self.score
    op,          \* the last call made on the environment
    prev_over,   \* the game_over flag the caller held when it made that call
    action,      \* the argument of the last play_step (NoAction after reset)
    reward,      \* first element of the tuple the last play_step returned
    game_over,   \* second element of that tuple; FALSE after reset
    ret_score    \* third element of that tuple

envVars == <<shaping, direction, head, snake, food, score,
             op, prev_over, action, reward, game_over, ret_score>>

NoAction == 0 - 1

\* ------------------------------------------------------------------------
\* Helpers over Python lists.

\* x in lst
In(x, lst) == \E i \in 1 .. Len(lst) : lst[i] = x

\* lst[1:]
Rest(lst) == SubSeq(lst, 2, Len(lst))

\* a pop() that was left out
Popped_missing(lst) == lst

\* lst after lst.pop()
Popped(lst) == SubSeq(lst, 1, Len(lst) - 1)

\* an insert that drops the tail in the same breath
Inserted_trimmed(x, lst) == <<x>> \o SubSeq(lst, 1, Len(lst) - 1)

\* lst after lst.insert(0, x)
Inserted(x, lst) == <<x>> \o lst

\* abs(n)
Abs(n) == IF n < 0 THEN 0 - n ELSE n

\* range(0, stop, step) as a set: the values random.randrange can return
RandRange(stop, step) == {n \in 0 .. (stop - 1) : n % step = 0}

\* ------------------------------------------------------------------------
\* SnakeGame._move

clock_wise == <<"RIGHT", "DOWN", "LEFT", "UP">>

\* clock_wise.index(d), zero-based as in Python
IndexOf(d) == (CHOOSE i \in 1 .. 4 : clock_wise[i] = d) - 1

\* the two turns exchanged
new_idx_swapped(d, a) ==
    IF a = 1 THEN (IndexOf(d) - 1) % 4
    ELSE IF a = 2 THEN (IndexOf(d) + 1) % 4
    ELSE IndexOf(d)

\* the action added to the index instead of the branch on it
new_idx_sum(d, a) == (IndexOf(d) + a) % 4

new_idx(d, a) ==
    IF a = 1 THEN (IndexOf(d) + 1) % 4
    ELSE IF a = 2 THEN (IndexOf(d) - 1) % 4
    ELSE IndexOf(d)

\* the heading _move stores in self.direction
NewDirection(d, a) == clock_wise[new_idx(d, a) + 1]

\* the head moved on both axes
Advance_diagonal(h, d) ==
    IF d = "RIGHT" THEN <<h[1] + block_size, h[2] + block_size>>
    ELSE IF d = "LEFT" THEN <<h[1] - block_size, h[2] - block_size>>
    ELSE IF d = "DOWN" THEN <<h[1] - block_size, h[2] + block_size>>
    ELSE IF d = "UP" THEN <<h[1] + block_size, h[2] - block_size>>
    ELSE h

\* the cell _move stores in self.head, one block from h in heading d
Advance(h, d) ==
    IF d = "RIGHT" THEN <<h[1] + block_size, h[2]>>
    ELSE IF d = "LEFT" THEN <<h[1] - block_size, h[2]>>
    ELSE IF d = "DOWN" THEN <<h[1], h[2] + block_size>>
    ELSE IF d = "UP" THEN <<h[1], h[2] - block_size>>
    ELSE h

\* ------------------------------------------------------------------------
\* SnakeGame._is_collision(point) against the body snk

OutOfBounds(point) ==
    \/ point[1] < 0
    \/ point[1] >= width
    \/ point[2] < 0
    \/ point[2] >= height

\* the body test made after the tail was dropped
is_collision_afterPop(point, snk) ==
    IF OutOfBounds(point) THEN TRUE
    ELSE IF In(point, Rest(SubSeq(snk, 1, Len(snk) - 1))) THEN TRUE
    ELSE FALSE

\* the body test left out
is_collision_wallsOnly(point, snk) == OutOfBounds(point)

is_collision(point, snk) ==
    IF OutOfBounds(point) THEN TRUE
    ELSE IF In(point, Rest(snk)) THEN TRUE
    ELSE FALSE

\* ------------------------------------------------------------------------
\* SnakeGame._place_food: draws a cell of the block grid and draws again as
\* long as the cell is in the snake.  The set of cells a completed call can
\* leave in self.food.

FoodDraws == {<<x, y>> : x \in RandRange(width, block_size),
                         y \in RandRange(height, block_size)}

\* the first draw kept, whatever it is
place_food_anywhere(snk) == FoodDraws

place_food(snk) == {c \in FoodDraws : ~In(c, snk)}

\* ------------------------------------------------------------------------
\* SnakeGame.reset

StartHead == <<width \div 2, height \div 2>>

\* a body of two cells
StartSnake_short ==
    <<StartHead,
      <<StartHead[1] - block_size, StartHead[2]>>>>

StartSnake ==
    <<StartHead,
      <<StartHead[1] - block_size, StartHead[2]>>,
      <<StartHead[1] - 2 * block_size, StartHead[2]>>>>

\* a reset that keeps the heading of the episode before
reset_keepsDirection ==
    /\ direction' = direction
    /\ head' = StartHead
    /\ snake' = StartSnake
    /\ score' = 0
    /\ food' \in {c \in FoodDraws : ~In(c, StartSnake)}
    /\ op' = "reset"
    /\ prev_over' = game_over
    /\ action' = NoAction
    /\ reward' = 0
    /\ game_over' = FALSE
    /\ ret_score' = 0
    /\ UNCHANGED shaping

reset ==
    /\ direction' = "RIGHT"
    /\ head' = StartHead
    /\ snake' = StartSnake
    /\ score' = 0
    /\ food' \in place_food(StartSnake)
    /\ op' = "reset"
    /\ prev_over' = game_over
    /\ action' = NoAction
    /\ reward' = 0
    /\ game_over' = FALSE
    /\ ret_score' = 0
    /\ UNCHANGED shaping

\* ------------------------------------------------------------------------
\* SnakeGame.play_step

\* the increment left out
Incremented_forgotten(sc) == sc

\* self.score += 1
Incremented(sc) == sc + 1

Distance(h, f) == Abs(h[1] - f[1]) + Abs(h[2] - f[2])

\* the two shaped rewards exchanged
StepReward_reversed(shaped, oldHead, newHead, f) ==
    IF shaped
    THEN (IF Distance(newHead, f) < Distance(oldHead, f) THEN 0 - 1 ELSE 1)
    ELSE 0

\* reward of a step that neither collides nor eats
StepReward(shaped, oldHead, newHead, f) ==
    IF shaped
    THEN (IF Distance(newHead, f) < Distance(oldHead, f) THEN 1 ELSE 0 - 1)
    ELSE 0

\* the statements of play_step, on a game over or not
play_step_statements(a) ==
    LET d == NewDirection(direction, a)
        h == Advance(head, d)
        grown == Inserted(h, snake)
    IN  /\ (h = food /\ ~is_collision(h, grown)) => score < MaxScore
        /\ op' = "play_step"
        /\ prev_over' = game_over
        /\ action' = a
        /\ direction' = d
        /\ head' = h
        /\ UNCHANGED shaping
        /\ IF is_collision(h, grown)
           THEN /\ snake' = grown
                /\ reward' = 0 - 10
                /\ game_over' = TRUE
                /\ ret_score' = score
                /\ UNCHANGED <<food, score>>
           ELSE IF h = food
           THEN /\ score' = Incremented(score)
                /\ reward' = 10
                /\ snake' = grown
                /\ food' \in place_food(grown)
                /\ game_over' = FALSE
                /\ ret_score' = Incremented(score)
           ELSE /\ reward' = StepReward(shaping, head, h, food)
                /\ snake' = Popped(grown)
                /\ game_over' = FALSE
                /\ ret_score' = score
                /\ UNCHANGED <<food, score>>

\* play_step as its callers call it: every driver loop leaves on done and
\* resets
play_step(a) ==
    /\ ~game_over
    /\ play_step_statements(a)

\* ------------------------------------------------------------------------
\* SnakeGame.__init__ ends with self.reset()

EnvInit ==
    /\ shaping \in BOOLEAN
    /\ direction = "RIGHT"
    /\ head = StartHead
    /\ snake = StartSnake
    /\ score = 0
    /\ food \in place_food(StartSnake)
    /\ op = "__init__"
    /\ prev_over = FALSE
    /\ action = NoAction
    /\ reward = 0
    /\ game_over = FALSE
    /\ ret_score = 0

\* ------------------------------------------------------------------------
\* Numbers of the agent.  lr, gamma, epsilon and the Q-values are Python
\* floats; here they are exact fractions <<numerator, denominator>> in lowest
\* terms with a positive denominator, the decimal literals of the source
\* taken at their written value.

RECURSIVE GCD(_, _)
GCD(a, b) == IF b = 0 THEN a ELSE GCD(b, a % b)

Rat(n, d) ==
    LET g == GCD(Abs(n), d)
    IN  IF n = 0 THEN <<0, 1>> ELSE <<n \div g, d \div g>>

FromInt(n) == <<n, 1>>

\* least common denominator of two fractions
LCD(x, y) == (x[2] \div GCD(x[2], y[2])) * y[2]

\* the numerator of x over the denominator d, a multiple of x's own
Over(x, d) == x[1] * (d \div x[2])

RAdd(x, y) ==
    LET d == LCD(x, y)
    IN  Rat(Over(x, d) + Over(y, d), d)

RSub(x, y) ==
    LET d == LCD(x, y)
    IN  Rat(Over(x, d) - Over(y, d), d)

RMul(x, y) ==
    LET a == Rat(x[1], y[2])
        b == Rat(y[1], x[2])
    IN  <<a[1] * b[1], a[2] * b[2]>>

RLess(x, y) ==
    LET d == LCD(x, y)
    IN  Over(x, d) < Over(y, d)

RLeq(x, y) ==
    LET d == LCD(x, y)
    IN  Over(x, d) <= Over(y, d)

RAbs(x) == <<Abs(x[1]), x[2]>>

\* max(vec) for a non-empty list of numbers
RECURSIVE RMax(_)
RMax(vec) ==
    IF Len(vec) = 1 THEN vec[1]
    ELSE LET m == RMax(Rest(vec))
         IN  IF RLess(vec[1], m) THEN m ELSE vec[1]

\* ------------------------------------------------------------------------
\* Agent (src/snake_game/agent.py)

\* Agent.__init__ defaults
AgentDefaults ==
    [lr |-> Rat(1, 10), gamma |-> Rat(9, 10), epsilon |-> Rat(1, 1),
     epsilon_decay |-> Rat(995, 1000), epsilon_min |-> Rat(1, 100)]

\* the presets of the multi-worker trainer
HYPERPARAMS ==
    << [lr |-> Rat(1, 10), gamma |-> Rat(9, 10), epsilon |-> Rat(1, 1),
        epsilon_decay |-> Rat(995, 1000), epsilon_min |-> Rat(1, 100)],
       [lr |-> Rat(5, 100), gamma |-> Rat(95, 100), epsilon |-> Rat(1, 1),
        epsilon_decay |-> Rat(99, 100), epsilon_min |-> Rat(1, 100)],
       [lr |-> Rat(2, 10), gamma |-> Rat(8, 10), epsilon |-> Rat(1, 1),
        epsilon_decay |-> Rat(997, 1000), epsilon_min |-> Rat(1, 100)],
       [lr |-> Rat(1, 10), gamma |-> Rat(95, 100), epsilon |-> Rat(1, 1),
        epsilon_decay |-> Rat(995, 1000), epsilon_min |-> Rat(1, 100)] >>

\* every parameter set a trainer constructs an Agent with
TrainerParams == {AgentDefaults} \cup {HYPERPARAMS[i] : i \in 1 .. Len(HYPERPARAMS)}

n_actions == 3

\* The keys of the Q-table are the tuples get_state returns; the update
\* only hashes and compares them, so two distinct keys stand for them.
StateKeys == {1, 2}

\* the rewards play_step of src/snake_game/game.py returns
Rewards == {0 - 10, 0, 10}

\* the number of updates followed
MaxUpdates == 2

VARIABLES
    lr,             \* self.lr
    gamma,          \* self.gamma
    epsilon,        \* self.epsilon
    epsilon_decay,  \* self.epsilon_decay
    epsilon_min,    \* self.epsilon_min
    q_table,        \* self.q_table: key -> list of n_actions values
    call,           \* the last call made on the agent: arguments and locals
    n_updates       \* how many updates were made

agentVars == <<lr, gamma, epsilon, epsilon_decay, epsilon_min,
               q_table, call, n_updates>>

\* [0] * self.n_actions
ZeroVector == [i \in 1 .. n_actions |-> FromInt(0)]

\* {}
EmptyTable == [k \in {} |-> ZeroVector]

\* table after: if key not in table: table[key] = [0] * n_actions
WithKey(table, key) ==
    IF key \in DOMAIN table THEN table
    ELSE [k \in (DOMAIN table) \cup {key} |->
             IF k = key THEN ZeroVector ELSE table[k]]

\* the update with the sign of the step turned round
Updated_awayFromTarget(predict, target, rate) ==
    RSub(predict, RMul(rate, RSub(target, predict)))

\* predict + self.lr * (target - predict)
Updated(predict, target, rate) ==
    RAdd(predict, RMul(rate, RSub(target, predict)))

\* the target that adds the discounted next-state value on a terminal step too
Target_ignoringDone(table, r, next_state, done) ==
    RAdd(FromInt(r), RMul(gamma, RMax(table[next_state])))

\* target = reward; if not done: target = reward + gamma * max(Q[next_state])
Target(table, r, next_state, done) ==
    IF done THEN FromInt(r)
    ELSE RAdd(FromInt(r), RMul(gamma, RMax(table[next_state])))

\* epsilon after: if self.epsilon > self.epsilon_min: self.epsilon *= decay
Decay(eps, decay, min) ==
    IF RLess(min, eps) THEN RMul(eps, decay) ELSE eps

\* Agent.train_short_memory; an action of the game is an index 0 .. 2 into
\* the list, position a + 1 of the tuple here
train_short_memory(state, a, r, next_state, done) ==
    LET table == WithKey(WithKey(q_table, state), next_state)
        predict == table[state][a + 1]
        target == Target(table, r, next_state, done)
    IN  /\ q_table' = [table EXCEPT ![state][a + 1] = Updated(predict, target, lr)]
        /\ epsilon' = Decay(epsilon, epsilon_decay, epsilon_min)
        /\ call' = [fn |-> "train_short_memory", state |-> state, action |-> a,
                    reward |-> r, next_state |-> next_state, done |-> done,
                    predict |-> predict, target |-> target]
        /\ UNCHANGED <<lr, gamma, epsilon_decay, epsilon_min>>

\* Agent.__init__ with the parameter set hp
AgentInit(hp) ==
    /\ lr = hp.lr
    /\ gamma = hp.gamma
    /\ epsilon = hp.epsilon
    /\ epsilon_decay = hp.epsilon_decay
    /\ epsilon_min = hp.epsilon_min
    /\ q_table = EmptyTable
    /\ call = [fn |-> "__init__"]
    /\ n_updates = 0

\* ------------------------------------------------------------------------
\* Agent.get_state (src/snake_game/agent.py), on the attributes of the game

point_straight(d, h) ==
    IF d = "RIGHT" THEN <<h[1] + block_size, h[2]>>
    ELSE IF d = "LEFT" THEN <<h[1] - block_size, h[2]>>
    ELSE IF d = "UP" THEN <<h[1], h[2] - block_size>>
    ELSE <<h[1], h[2] + block_size>>

point_left(d, h) ==
    IF d = "RIGHT" THEN <<h[1], h[2] - block_size>>
    ELSE IF d = "LEFT" THEN <<h[1], h[2] + block_size>>
    ELSE IF d = "UP" THEN <<h[1] - block_size, h[2]>>
    ELSE <<h[1] + block_size, h[2]>>

\* the right-hand point taken on the left-hand side
point_right_mirrored(d, h) == point_left(d, h)

point_right(d, h) ==
    IF d = "RIGHT" THEN <<h[1], h[2] + block_size>>
    ELSE IF d = "LEFT" THEN <<h[1], h[2] - block_size>>
    ELSE IF d = "UP" THEN <<h[1] + block_size, h[2]>>
    ELSE <<h[1] - block_size, h[2]>>

\* int(b) of a bool b
Flag(b) == IF b THEN 1 ELSE 0

\* the tuple get_state returns
get_state(d, h, snk, f) ==
    << Flag(is_collision(point_straight(d, h), snk)),
       Flag(is_collision(point_right(d, h), snk)),
       Flag(is_collision(point_left(d, h), snk)),
       Flag(d = "LEFT"),
       Flag(d = "RIGHT"),
       Flag(d = "UP"),
       Flag(d = "DOWN"),
       Flag(f[1] < h[1]),
       Flag(f[1] > h[1]),
       Flag(f[2] < h[2]),
       Flag(f[2] > h[2]) >>

\* the head moved to the point probed
game_after_get_state_headMoved ==
    [snake |-> snake, head |-> point_straight(direction, head),
     direction |-> direction, food |-> food, score |-> score]

\* the attributes of the game when get_state returns: it assigns to none
\* of them, and the three points are new lists
game_after_get_state ==
    [snake |-> snake, head |-> head, direction |-> direction, food |-> food,
     score |-> score]

\* the attributes of the game when _is_collision(point) returns: it only
\* compares the point and slices the body
game_after_is_collision(point) ==
    [snake |-> snake, head |-> head, direction |-> direction, food |-> food,
     score |-> score]

\* the game holding the attributes g, the last step's returns kept
GameBecomes(g) ==
    /\ snake' = g.snake
    /\ head' = g.head
    /\ direction' = g.direction
    /\ food' = g.food
    /\ score' = g.score
    /\ UNCHANGED <<shaping, prev_over, action, reward, game_over, ret_score>>

\* ------------------------------------------------------------------------
\* merge_q_tables (src/snake_game_tabular_q_earning/train.py)

VARIABLES
    q_tables,   \* the list of Q-tables handed to merge_q_tables
    merged,     \* what the last call of merge_q_tables returned
    merge_calls \* how many calls of merge_q_tables have returned

mergeVars == <<q_tables, merged, merge_calls>>

\* the count left at 1
Counted_forgotten(c) == c

\* counts[state] += 1
Counted(c) == c + 1

\* merged[state] += np.array(q_vals, dtype=float)
VecAdd(u, v) == [i \in 1 .. Len(u) |-> RAdd(u[i], v[i])]

\* (merged[state] / counts[state]).tolist()
VecDiv(u, c) == [i \in 1 .. Len(u) |-> RMul(u[i], Rat(1, c))]

\* merged and counts after the inner loop over one table
AfterTable(acc, table) ==
    [merged |->
        [st \in (DOMAIN acc.merged) \cup (DOMAIN table) |->
            IF st \notin DOMAIN table THEN acc.merged[st]
            ELSE IF st \notin DOMAIN acc.merged THEN table[st]
            ELSE VecAdd(acc.merged[st], table[st])],
     counts |->
        [st \in (DOMAIN acc.counts) \cup (DOMAIN table) |->
            IF st \notin DOMAIN table THEN acc.counts[st]
            ELSE IF st \notin DOMAIN acc.counts THEN 1
            ELSE Counted(acc.counts[st])]]

\* merged and counts after the outer loop over the first n tables
RECURSIVE AfterTables(_, _)
AfterTables(tables, n) ==
    IF n = 0 THEN [merged |-> EmptyTable, counts |-> [st \in {} |-> 0]]
    ELSE AfterTable(AfterTables(tables, n - 1), tables[n])

merge_q_tables(tables) ==
    LET acc == AfterTables(tables, Len(tables))
    IN  [st \in DOMAIN acc.merged |-> VecDiv(acc.merged[st], acc.counts[st])]

\* The tables merge_q_tables is applied to: every list of at most MaxTables
\* tables, each holding for each key either nothing or one of three lists.
MaxTables == 3

VecInputs ==
    { <<FromInt(0), FromInt(0), FromInt(0)>>,
      <<FromInt(1), FromInt(0), FromInt(0 - 10)>>,
      <<Rat(1, 2), FromInt(3), FromInt(0)>> }

TableInputs ==
    UNION {[keys -> VecInputs] : keys \in SUBSET StateKeys}

MergeInit ==
    /\ q_tables = <<>>
    /\ merged = EmptyTable
    /\ merge_calls = 0

\* ------------------------------------------------------------------------
\* The multi-worker trainer (src/snake_game_tabular_q_earning/train.py):
\* train() and the train_worker tasks of its pool.  A worker's Q-table is
\* carried as the object it is: who built it (batch and worker_id), how
\* many writes train_short_memory made to it, and, once returned, the score
\* it was returned with; the values stored in it are not tracked here.

VARIABLES
    n_workers, episodes_per_worker, target_score,   \* the arguments of train()
    t_pc,                \* where train() stands
    best_overall_score, best_q_table, batch, results,
    qtable_trained,      \* the object saved to qtable_trained.npy
    workers,             \* the locals of each train_worker task
    max_returned,        \* history: the largest score any worker returned
    reached              \* history: some worker returned a score >= target_score

trainVars ==
    <<n_workers, episodes_per_worker, target_score, t_pc, best_overall_score,
      best_q_table, batch, results, qtable_trained, workers, max_returned,
      reached>>

MaxBatches == 2

\* the episode lengths the workers' environments produce
EpisodeSteps == {1, 2}

None == [made_by |-> <<0, 0>>, writes |-> 0, score |-> 0]

\* hyperparams = HYPERPARAMS[worker_id % len(HYPERPARAMS)]
Preset(worker_id) == HYPERPARAMS[(worker_id % Len(HYPERPARAMS)) + 1]

\* the locals of a task the pool has not started
Unstarted ==
    [pc |-> "unstarted", task |-> 0, hyperparams |-> Preset(0),
     epsilon |-> <<0, 1>>, q_table |-> None,
     ep |-> 0, steps |-> 0, score |-> 0, best_score |-> 0]

\* train_worker up to its for loop: the new Agent, the new game, best_score
WStart(w) ==
    /\ t_pc = "starmap"
    /\ workers[w].task < batch
    /\ workers' = [workers EXCEPT ![w] =
          [pc |-> "for", task |-> batch, hyperparams |-> Preset(w - 1),
           epsilon |-> Preset(w - 1).epsilon,
           q_table |-> [made_by |-> <<batch, w - 1>>, writes |-> 0, score |-> 0],
           ep |-> 0, steps |-> 0, score |-> 0, best_score |-> 0]]
    /\ UNCHANGED <<n_workers, episodes_per_worker, target_score, t_pc,
                   best_overall_score, best_q_table, batch, results,
                   qtable_trained, max_returned, reached, q_tables>>

\* the head of one more episode: game.reset(), get_state, score = 0
WReset(w) ==
    /\ workers[w].pc = "for"
    /\ workers[w].ep < episodes_per_worker
    /\ workers' = [workers EXCEPT ![w].pc = "while", ![w].score = 0,
                                  ![w].steps = 0]
    /\ UNCHANGED <<n_workers, episodes_per_worker, target_score, t_pc,
                   best_overall_score, best_q_table, batch, results,
                   qtable_trained, max_returned, reached, q_tables>>

\* one pass of the while loop: get_action, play_step, get_state,
\* train_short_memory, and on done the best_score update and the break
WStep(w) ==
    /\ workers[w].pc = "while"
    /\ \E outcome \in {"moved", "ate", "done"} :
          LET me == workers[w]
              hp == me.hyperparams
              new_score == IF outcome = "ate" THEN me.score + 1 ELSE me.score
              trained ==
                  [me EXCEPT !.score = new_score,
                             !.steps = me.steps + 1,
                             !.q_table.writes = me.q_table.writes + 1,
                             !.epsilon = Decay(me.epsilon, hp.epsilon_decay,
                                               hp.epsilon_min)]
          IN  /\ outcome # "done" => me.steps + 1 \in EpisodeSteps
                                        /\ me.steps + 2 \in EpisodeSteps
              /\ workers' = [workers EXCEPT ![w] =
                    IF outcome = "done"
                    THEN [trained EXCEPT
                            !.best_score = IF new_score > me.best_score
                                           THEN new_score ELSE me.best_score,
                            !.ep = me.ep + 1,
                            !.pc = "for"]
                    ELSE trained]
    /\ UNCHANGED <<n_workers, episodes_per_worker, target_score, t_pc,
                   best_overall_score, best_q_table, batch, results,
                   qtable_trained, max_returned, reached, q_tables>>

\* return best_score, agent.q_table
WReturn(w) ==
    /\ workers[w].pc = "for"
    /\ workers[w].ep = episodes_per_worker
    /\ workers' = [workers EXCEPT ![w].pc = "returned",
                                  ![w].q_table.score = workers[w].best_score]
    /\ UNCHANGED <<n_workers, episodes_per_worker, target_score, t_pc,
                   best_overall_score, best_q_table, batch, results,
                   qtable_trained, max_returned, reached, q_tables>>

\* starmap returns as soon as one task has
AllReturned_first ==
    \E w \in 1 .. n_workers :
        workers[w].task = batch /\ workers[w].pc = "returned"

\* pool.starmap returns when every task of the batch has returned
AllReturned ==
    \A w \in 1 .. n_workers :
        workers[w].task = batch /\ workers[w].pc = "returned"

\* a result that only equals the best so far replaces it too
Better_orEqual(sc, best) == sc >= best

\* if score > best_overall_score
Better(sc, best) == sc > best

\* the table of the last result is kept with the largest score
RECURSIVE BestAfter_lastTable(_, _, _)
BestAfter_lastTable(res, n, start) ==
    IF n = 0 THEN start
    ELSE LET before == BestAfter_lastTable(res, n - 1, start)
         IN  [score |-> IF res[n].score > before.score
                        THEN res[n].score ELSE before.score,
              q_table |-> res[n].q_table]

\* best_overall_score and best_q_table after the first n passes of the
\* for loop over the results
RECURSIVE BestAfter(_, _, _)
BestAfter(res, n, start) ==
    IF n = 0 THEN start
    ELSE LET before == BestAfter(res, n - 1, start)
         IN  IF Better(res[n].score, before.score)
             THEN [score |-> res[n].score, q_table |-> res[n].q_table]
             ELSE before

\* the loop also runs when the target has just been met
KeepTraining_untilAbove == best_overall_score <= target_score

\* while best_overall_score < target_score
KeepTraining == best_overall_score < target_score

\* the while condition holds: batch += 1, the pool is entered
StartBatch ==
    /\ t_pc = "while"
    /\ KeepTraining
    /\ batch < MaxBatches
    /\ batch' = batch + 1
    /\ t_pc' = "starmap"
    /\ UNCHANGED <<n_workers, episodes_per_worker, target_score,
                   best_overall_score, best_q_table, results, qtable_trained,
                   workers, max_returned, reached, q_tables>>

\* starmap returns the results; the for loop over them
Collect ==
    /\ t_pc = "starmap"
    /\ AllReturned
    /\ results' = [w \in 1 .. n_workers |->
                      [score |-> workers[w].best_score,
                       q_table |-> workers[w].q_table]]
    /\ q_tables' = [w \in 1 .. n_workers |-> results'[w].q_table]
    /\ LET best == BestAfter(results', n_workers,
                             [score |-> best_overall_score,
                              q_table |-> best_q_table])
       IN  /\ best_overall_score' = best.score
           /\ best_q_table' = best.q_table
    /\ max_returned' =
          CHOOSE m \in {max_returned} \cup {results'[w].score : w \in 1 .. n_workers} :
              /\ m >= max_returned
              /\ \A w \in 1 .. n_workers : m >= results'[w].score
    /\ reached' = (reached \/ \E w \in 1 .. n_workers :
                                 results'[w].score >= target_score)
    /\ t_pc' = "while"
    /\ UNCHANGED <<n_workers, episodes_per_worker, target_score, batch,
                   qtable_trained, workers>>

\* the while condition fails
EndLoop ==
    /\ t_pc = "while"
    /\ ~KeepTraining
    /\ t_pc' = "save"
    /\ UNCHANGED <<n_workers, episodes_per_worker, target_score,
                   best_overall_score, best_q_table, batch, results,
                   qtable_trained, workers, max_returned, reached, q_tables>>

\* np.save("qtable_trained.npy", best_q_table)
Save ==
    /\ t_pc = "save"
    /\ qtable_trained' = best_q_table
    /\ t_pc' = "end"
    /\ UNCHANGED <<n_workers, episodes_per_worker, target_score,
                   best_overall_score, best_q_table, batch, results, workers,
                   max_returned, reached, q_tables>>

\* train() called with the given arguments, before its first statement runs
TrainCalled(n, episodes, target) ==
    /\ n_workers = n
    /\ episodes_per_worker = episodes
    /\ target_score = target
    /\ t_pc = "while"
    /\ best_overall_score = 0
    /\ best_q_table = None
    /\ batch = 0
    /\ results = <<>>
    /\ qtable_trained = None
    /\ workers = [w \in 1 .. n |-> Unstarted]
    /\ max_returned = 0
    /\ reached = FALSE

\* train() not called
TrainIdle ==
    /\ TrainCalled(0, 0, 0)

\* ------------------------------------------------------------------------
\* The single-process trainers, episode by episode: train() of
\* src/snake_game_dqn/train.py and main() of src/snake_game/main.py.  An
\* episode is its inner loop run to done, with the score it ends on; the
\* agent's model is carried as the number of episodes it has been trained
\* on, and a saved file as the model it holds.

VARIABLES
    trainer,            \* "dqn" or "tabular"; "none" when no trainer runs
    TRAIN_BEST_SCORE,   \* the target record of the DQN trainer
    s_pc,               \* where the trainer stands
    n_games,            \* episodes finished (agent.n_games; episode in main)
    ep_score,           \* the score the last episode ended on
    record,             \* the DQN trainer's record
    model_file,         \* the model in the saved file; NoFile when none
    best_seen,          \* history: the largest score an episode ended on
    best_at             \* history: n_games at the last episode that raised it

soloVars ==
    <<trainer, TRAIN_BEST_SCORE, s_pc, n_games, ep_score, record, model_file,
      best_seen, best_at>>

MaxGames == 3

\* for episode in range(n_episodes), the budget scaled down
n_episodes == MaxGames

\* the scores an episode can end on
EpisodeScores == {0, 1, 2}

NoFile == 0 - 1

\* the history variables after an episode that ended on sc
Seen(sc) ==
    /\ best_seen' = IF sc > best_seen THEN sc ELSE best_seen
    /\ best_at' = IF sc > best_seen THEN n_games + 1 ELSE best_at

\* game.reset() to the end of the inner loop, n_games += 1, train_long_memory
DqnEpisode ==
    /\ trainer = "dqn"
    /\ s_pc = "episode"
    /\ n_games < MaxGames
    /\ \E sc \in EpisodeScores :
          /\ ep_score' = sc
          /\ Seen(sc)
    /\ n_games' = n_games + 1
    /\ s_pc' = "record"
    /\ UNCHANGED <<trainer, TRAIN_BEST_SCORE, record, model_file>>

\* the new record left unsaved
DqnRecord_unsaved ==
    /\ trainer = "dqn"
    /\ s_pc = "record"
    /\ IF ep_score > record
       THEN record' = ep_score /\ UNCHANGED model_file
       ELSE UNCHANGED <<record, model_file>>
    /\ s_pc' = "target"
    /\ UNCHANGED <<trainer, TRAIN_BEST_SCORE, n_games, ep_score, best_seen, best_at>>

\* if score > record: record = score; agent.model.save("model_dqn.pth")
DqnRecord ==
    /\ trainer = "dqn"
    /\ s_pc = "record"
    /\ IF ep_score > record
       THEN record' = ep_score /\ model_file' = n_games
       ELSE UNCHANGED <<record, model_file>>
    /\ s_pc' = "target"
    /\ UNCHANGED <<trainer, TRAIN_BEST_SCORE, n_games, ep_score, best_seen, best_at>>

\* if record >= TRAIN_BEST_SCORE: break
DqnTarget ==
    /\ trainer = "dqn"
    /\ s_pc = "target"
    /\ s_pc' = IF record >= TRAIN_BEST_SCORE THEN "end" ELSE "episode"
    /\ UNCHANGED <<trainer, TRAIN_BEST_SCORE, n_games, ep_score, record,
                   model_file, best_seen, best_at>>

\* one pass of the for loop of main(): game.reset() to the break on done
TabularEpisode ==
    /\ trainer = "tabular"
    /\ s_pc = "episode"
    /\ n_games < n_episodes
    /\ \E sc \in EpisodeScores :
          /\ ep_score' = sc
          /\ Seen(sc)
    /\ n_games' = n_games + 1
    /\ UNCHANGED <<trainer, TRAIN_BEST_SCORE, s_pc, record, model_file>>

\* the for loop is exhausted: agent.save_model()
TabularSave ==
    /\ trainer = "tabular"
    /\ s_pc = "episode"
    /\ n_games = n_episodes
    /\ model_file' = n_games
    /\ s_pc' = "end"
    /\ UNCHANGED <<trainer, TRAIN_BEST_SCORE, n_games, ep_score, record,
                   best_seen, best_at>>

\* the trainer tr started, the DQN one with the target record target
SoloStarted(tr, target) ==
    /\ trainer = tr
    /\ TRAIN_BEST_SCORE = target
    /\ s_pc = "episode"
    /\ n_games = 0
    /\ ep_score = 0
    /\ record = 0
    /\ model_file = NoFile
    /\ best_seen = 0
    /\ best_at = 0

\* no single-process trainer started
SoloIdle ==
    /\ SoloStarted("none", 0)

\* ------------------------------------------------------------------------
\* Agent.get_action of the DQN agent (src/snake_game_dqn/agent.py).  The
\* network is not modelled: what is kept of a call is whether the action
\* came from random.randint(0, 2) or from the argmax of the prediction.

VARIABLES
    dqn_epsilon,    \* agent.epsilon of the DQN agent
    explored        \* "random" or "argmax" for the last action; "none" before

dqnVars == <<dqn_epsilon, explored>>

\* self.epsilon = max(0, 80 - self.n_games)
ExplorationGames == 80

\* random.randint(0, 200)
DrawMax == 200

\* the schedule without its floor
epsilon_schedule_unclamped(games) == ExplorationGames - games

epsilon_schedule(games) ==
    IF ExplorationGames - games > 0 THEN ExplorationGames - games ELSE 0

\* get_action: epsilon is set from n_games, then one draw decides
dqn_get_action ==
    /\ dqn_epsilon' = epsilon_schedule(n_games)
    /\ explored' \in {IF draw < epsilon_schedule(n_games) THEN "random" ELSE "argmax" :
                        draw \in 0 .. DrawMax}

\* Agent.__init__: self.epsilon = 0 (and self.n_games = 0)
DqnAgentInit ==
    /\ dqn_epsilon = 0
    /\ explored = "none"

\* ------------------------------------------------------------------------
\* The DQN evaluation run: run() of src/snake_game_dqn/main.py, with
\* Linear_QNet.load of src/snake_game_dqn/agent.py.

VARIABLES
    checkpoint_exists,  \* model_dqn.pth is on disk
    r_pc,               \* where run() stands; "failed" once an exception left it
    model_loaded        \* the network holds the parameters of the checkpoint

runVars == <<checkpoint_exists, r_pc, model_loaded>>

\* agent.model.load("model_dqn.pth"): torch.load raises when the file is
\* missing, and neither load nor run() catches it
Load ==
    /\ r_pc = "load"
    /\ IF checkpoint_exists
       THEN model_loaded' = TRUE /\ r_pc' = "epsilon"
       ELSE model_loaded' = FALSE /\ r_pc' = "failed"
    /\ UNCHANGED checkpoint_exists

\* agent.epsilon = 0
SetEpsilon ==
    /\ r_pc = "epsilon"
    /\ dqn_epsilon' = 0
    /\ r_pc' = "reset"
    /\ UNCHANGED <<checkpoint_exists, model_loaded, explored>>

\* game.reset(); state = agent.get_state(game)
RunReset ==
    /\ r_pc = "reset"
    /\ reset
    /\ r_pc' = "step"
    /\ UNCHANGED <<checkpoint_exists, model_loaded>>

\* one pass of the inner loop: get_action, play_step, get_state, and the
\* break on done
RunStep ==
    /\ r_pc = "step"
    /\ dqn_get_action
    /\ \E a \in {0, 1, 2} : play_step(a)
    /\ r_pc' = IF game_over' THEN "reset" ELSE "step"
    /\ UNCHANGED <<checkpoint_exists, model_loaded>>

\* run() entered, the checkpoint on disk or not
RunStarted(exists) ==
    /\ checkpoint_exists = exists
    /\ r_pc = "load"
    /\ model_loaded = FALSE

\* run() not called
RunIdle ==
    /\ checkpoint_exists = FALSE
    /\ r_pc = "idle"
    /\ model_loaded = FALSE

\* ------------------------------------------------------------------------
\* SnakeGame._place_food draw by draw: every draw that lands on the snake
\* is one more nested call of _place_food, and the interpreter raises
\* RecursionError when the calls nest deeper than its recursion limit.

VARIABLES
    pf_pc,      \* "idle", "called", "returned", or "raised" (RecursionError)
    pf_depth    \* nested calls of _place_food below the first

\* the interpreter's recursion limit (sys.getrecursionlimit()), scaled down
RecursionLimit == 3

\* cell k of the board walked row by row, every other row backwards
SerpentineCell(k) ==
    LET cols == width \div block_size
        row == k \div cols
        col == IF row % 2 = 0 THEN k % cols ELSE (cols - 1) - (k % cols)
    IN  <<col * block_size, row * block_size>>

\* the body of n cells coiled along that walk, head first
Coiled(n) == [i \in 1 .. n |-> SerpentineCell(n - i)]

\* _place_food called on a game whose snake is coiled over n cells
PlaceFoodCalled(n) ==
    /\ shaping = FALSE
    /\ snake = Coiled(n)
    /\ head = Coiled(n)[1]
    /\ direction = (IF ((n - 1) \div (width \div block_size)) % 2 = 0
                    THEN "RIGHT" ELSE "LEFT")
    /\ score = n - 3
    /\ food = head
    /\ op = "play_step"
    /\ prev_over = FALSE
    /\ action = 0
    /\ reward = 10
    /\ game_over = FALSE
    /\ ret_score = n - 3
    /\ pf_pc = "called"
    /\ pf_depth = 0

\* no call of _place_food followed draw by draw
PlaceIdle ==
    /\ pf_pc = "idle"
    /\ pf_depth = 0

\* ------------------------------------------------------------------------
\* The four driver loops, statement by statement: run() of
\* src/snake_game/main.py, train_worker of
\* src/snake_game_tabular_q_earning/train.py, train() of
\* src/snake_game_dqn/train.py and run() of src/snake_game_dqn/main.py.
\* The update of the agent is followed as the call the driver makes, with
\* its arguments; what the call does to the agent is followed on its own.

\* the episodes a for loop is followed through
MaxLoopEpisodes == 2

\* the play_step calls a driver is followed through
MaxLoopSteps == 3

VARIABLES
    l_driver,   \* which loop runs: "main", "worker", "dqn_train", "dqn_run"
    l_pc,       \* the statement the loop is at
    l_state,    \* local state / state_old
    l_action,   \* local action
    l_reward,   \* local reward
    l_done,     \* local done
    l_next,     \* local state_next / next_state / state_new
    l_call,     \* the last agent.train_short_memory call: its arguments
    l_pending,  \* play_step calls made less train_short_memory calls made
    l_before,   \* what get_state gave on the game the last play_step began on
    l_left,     \* passes of the for loop still to come
    l_record,   \* best_score of train_worker, record of train()
    l_target,   \* TRAIN_BEST_SCORE
    l_steps     \* how many play_step calls the driver has made

loopVars == <<l_driver, l_pc, l_state, l_action, l_reward, l_done, l_next,
              l_call, l_pending, l_before, l_left, l_record, l_target,
              l_steps>>

\* agent.get_state(game) on the game as it is
Observed == get_state(direction, head, snake, food)

\* the inner loop goes round again whatever done is
Leaves_never(done) == FALSE

\* if done: break, and while not done of the DQN trainer
Leaves(done) == done

\* the state kept for the next pass is the one the pass began with
Carried_stale(state, next) == state

\* state = state_next; state = next_state; state_old = state_new
Carried(state, next) == next

\* game.reset(); state = agent.get_state(game); done = False
LoopReset ==
    /\ l_pc = "episode"
    /\ reset
    /\ l_state' = get_state(direction', head', snake', food')
    /\ l_done' = FALSE
    /\ l_pc' = "get_action"
    /\ UNCHANGED <<l_driver, l_action, l_reward, l_next, l_call, l_pending,
                   l_before, l_left, l_record, l_target, l_steps>>
    /\ UNCHANGED <<agentVars, mergeVars, trainVars, soloVars, runVars, pf_pc,
                   pf_depth, dqnVars>>

\* action = agent.get_action(state): one of the three moves
LoopGetAction ==
    /\ l_pc = "get_action"
    /\ l_action' \in 0 .. 2
    /\ l_pc' = "play_step"
    /\ UNCHANGED envVars
    /\ UNCHANGED <<l_driver, l_state, l_reward, l_done, l_next, l_call,
                   l_pending, l_before, l_left, l_record, l_target, l_steps>>
    /\ UNCHANGED <<agentVars, mergeVars, trainVars, soloVars, runVars, pf_pc,
                   pf_depth, dqnVars>>

\* reward, done, score = game.play_step(action)
LoopPlayStep ==
    /\ l_pc = "play_step"
    /\ l_steps < MaxLoopSteps
    /\ l_steps' = l_steps + 1
    /\ play_step_statements(l_action)
    /\ l_reward' = reward'
    /\ l_done' = game_over'
    /\ l_before' = Observed
    /\ l_pending' = l_pending + 1
    /\ l_pc' = "get_state"
    /\ UNCHANGED <<l_driver, l_state, l_action, l_next, l_call, l_left,
                   l_record, l_target>>
    /\ UNCHANGED <<agentVars, mergeVars, trainVars, soloVars, runVars, pf_pc,
                   pf_depth, dqnVars>>

\* state_next = agent.get_state(game); the evaluation run assigns to state
\* and comes to its if done: break
LoopGetState ==
    /\ l_pc = "get_state"
    /\ UNCHANGED envVars
    /\ IF l_driver = "dqn_run"
       THEN /\ l_state' = Observed
            /\ l_pc' = IF Leaves(l_done) THEN "episode" ELSE "get_action"
            /\ l_pending' = 0     \* this loop has no update to wait for
            /\ UNCHANGED l_next
       ELSE /\ l_next' = Observed
            /\ l_pc' = "train"
            /\ UNCHANGED <<l_state, l_pending>>
    /\ UNCHANGED <<l_driver, l_action, l_reward, l_done, l_call, l_before,
                   l_left, l_record, l_target, l_steps>>
    /\ UNCHANGED <<agentVars, mergeVars, trainVars, soloVars, runVars, pf_pc,
                   pf_depth, dqnVars>>

\* agent.train_short_memory(state, action, reward, state_next, done) (and
\* agent.remember of the same in the DQN trainer); state = state_next; the
\* test that ends the inner loop
LoopTrain ==
    /\ l_pc = "train"
    /\ UNCHANGED envVars
    /\ l_call' = [fn |-> "train_short_memory", state |-> l_state,
                  action |-> l_action, reward |-> l_reward,
                  next_state |-> l_next, done |-> l_done]
    /\ l_pending' = l_pending - 1
    /\ l_state' = Carried(l_state, l_next)
    /\ l_pc' = IF Leaves(l_done) THEN "close" ELSE "get_action"
    /\ UNCHANGED <<l_driver, l_action, l_reward, l_done, l_next, l_before,
                   l_left, l_record, l_target, l_steps>>
    /\ UNCHANGED <<agentVars, mergeVars, trainVars, soloVars, runVars, pf_pc,
                   pf_depth, dqnVars>>

\* what follows the inner loop: the next pass of the for loop or its end;
\* in train_worker best_score first; in the DQN trainer record, and the
\* break on record >= TRAIN_BEST_SCORE
LoopClose ==
    /\ l_pc = "close"
    /\ UNCHANGED envVars
    /\ l_record' = IF l_driver \in {"worker", "dqn_train"} /\ ret_score > l_record
                   THEN ret_score ELSE l_record
    /\ l_left' = IF l_driver \in {"main", "worker"} THEN l_left - 1 ELSE l_left
    /\ l_pc' = IF l_driver = "dqn_train"
               THEN (IF l_record' >= l_target THEN "end" ELSE "episode")
               ELSE (IF l_left' = 0 THEN "end" ELSE "episode")
    /\ UNCHANGED <<l_driver, l_state, l_action, l_reward, l_done, l_next,
                   l_call, l_pending, l_before, l_target, l_steps>>
    /\ UNCHANGED <<agentVars, mergeVars, trainVars, soloVars, runVars, pf_pc,
                   pf_depth, dqnVars>>

\* the driver about to enter its outer loop: n passes of a for loop, or
\* the target of the DQN trainer
LoopStarted(driver, n, target) ==
    /\ l_driver = driver
    /\ l_pc = "episode"
    /\ l_state = <<>>
    /\ l_action = NoAction
    /\ l_reward = 0
    /\ l_done = FALSE
    /\ l_next = <<>>
    /\ l_call = [fn |-> "none"]
    /\ l_pending = 0
    /\ l_before = <<>>
    /\ l_left = n
    /\ l_record = 0
    /\ l_target = target
    /\ l_steps = 0

\* no driver loop followed
LoopIdle ==
    /\ l_driver = "none"
    /\ l_pc = "idle"
    /\ l_state = <<>>
    /\ l_action = NoAction
    /\ l_reward = 0
    /\ l_done = FALSE
    /\ l_next = <<>>
    /\ l_call = [fn |-> "none"]
    /\ l_pending = 0
    /\ l_before = <<>>
    /\ l_left = 0
    /\ l_record = 0
    /\ l_target = 0
    /\ l_steps = 0

\* the variables of the drivers that a specification leaves alone together
auxVars == <<pf_pc, pf_depth, loopVars>>

AuxIdle == PlaceIdle /\ DqnAgentInit /\ LoopIdle

\* ------------------------------------------------------------------------
\* The environment driven by its callers: construction, then reset and
\* play_step, the agent left as constructed.

vars ==
    <<envVars, agentVars, mergeVars, trainVars, soloVars, runVars, auxVars,
      dqnVars>>

Reset == reset /\ UNCHANGED <<agentVars, mergeVars, trainVars, soloVars, runVars, auxVars, dqnVars>>

PlayStep ==
    (\E a \in ActionInputs : play_step(a))
    /\ UNCHANGED <<agentVars, mergeVars, trainVars, soloVars, runVars, auxVars, dqnVars>>

Init ==
    EnvInit /\ AgentInit(AgentDefaults) /\ MergeInit /\ TrainIdle /\ SoloIdle
    /\ RunIdle
    /\ AuxIdle

Next == Reset \/ PlayStep

Spec == Init /\ [][Next]_vars

\* ------------------------------------------------------------------------
\* The agent's update applied to every transition a trainer can hand it,
\* for every parameter set of the trainers; the environment is constructed
\* and not stepped.

TrainShortMemory ==
    /\ n_updates < MaxUpdates
    /\ n_updates' = n_updates + 1
    /\ \E state \in StateKeys, a \in 0 .. (n_actions - 1), r \in Rewards,
          next_state \in StateKeys, done \in BOOLEAN :
          train_short_memory(state, a, r, next_state, done)
    /\ UNCHANGED <<envVars, mergeVars, trainVars, soloVars, runVars, auxVars, dqnVars>>

InitQ ==
    /\ EnvInit
    /\ shaping = FALSE
    /\ food = <<0, 0>>
    /\ \E hp \in TrainerParams : AgentInit(hp)
    /\ MergeInit
    /\ TrainIdle
    /\ SoloIdle
    /\ RunIdle
    /\ AuxIdle

NextQ == TrainShortMemory

SpecQ == InitQ /\ [][NextQ]_vars

\* ------------------------------------------------------------------------
\* The baseline environment with the agent's two reads of it, get_state and
\* _is_collision, called between the steps.

\* the points _is_collision is called with: the head (point=None, from
\* play_step) and the three points of get_state
ProbePoints ==
    {head, point_straight(direction, head), point_right(direction, head),
     point_left(direction, head)}

\* the reads are followed on games of at most this score
MaxReadScore == 1

PlayStepRead == PlayStep /\ score' <= MaxReadScore

GetState ==
    /\ op' = "get_state"
    /\ GameBecomes(game_after_get_state)
    /\ UNCHANGED <<agentVars, mergeVars, trainVars, soloVars, runVars, auxVars, dqnVars>>

IsCollision ==
    /\ \E point \in ProbePoints :
          /\ op' = "_is_collision"
          /\ GameBecomes(game_after_is_collision(point))
    /\ UNCHANGED <<agentVars, mergeVars, trainVars, soloVars, runVars, auxVars, dqnVars>>

InitS ==
    /\ EnvInit
    /\ shaping = FALSE
    /\ AgentInit(AgentDefaults)
    /\ MergeInit
    /\ TrainIdle
    /\ SoloIdle
    /\ RunIdle
    /\ AuxIdle

NextS ==
    \/ Reset
    \/ PlayStepRead
    \/ GetState
    \/ IsCollision

SpecS == InitS /\ [][NextS]_vars

\* ------------------------------------------------------------------------
\* train_short_memory on an Agent constructed with the default parameters
\* and an initial epsilon at or above epsilon_min.

\* the environment as constructed, its random draws fixed
PinnedEnv ==
    /\ EnvInit
    /\ shaping = FALSE
    /\ food = <<0, 0>>

EpsilonInputs == {Rat(1, 1), Rat(1, 50), Rat(201, 20000), Rat(1, 100)}

InitE ==
    /\ PinnedEnv
    /\ \E e \in EpsilonInputs : AgentInit([AgentDefaults EXCEPT !.epsilon = e])
    /\ MergeInit
    /\ TrainIdle
    /\ SoloIdle
    /\ RunIdle
    /\ AuxIdle

SpecE == InitE /\ [][NextQ]_vars

\* ------------------------------------------------------------------------
\* merge_q_tables applied to every list of input tables; environment and
\* agent are constructed and not used.

Merge ==
    /\ merge_calls = 0
    /\ merged' = merge_q_tables(q_tables)
    /\ merge_calls' = merge_calls + 1
    /\ UNCHANGED <<q_tables, envVars, agentVars, trainVars, soloVars, runVars, auxVars, dqnVars>>

InitM ==
    /\ PinnedEnv
    /\ AgentInit(AgentDefaults)
    /\ \E n \in 0 .. MaxTables : q_tables \in [1 .. n -> TableInputs]
    /\ merged = EmptyTable
    /\ merge_calls = 0
    /\ TrainIdle
    /\ SoloIdle
    /\ RunIdle
    /\ AuxIdle

NextM == Merge

SpecM == InitM /\ [][NextM]_vars

\* ------------------------------------------------------------------------
\* train() of the multi-worker trainer with its pool of train_worker tasks,
\* the tasks of a batch interleaved in every order.

InitT ==
    /\ PinnedEnv
    /\ AgentInit(AgentDefaults)
    /\ MergeInit
    /\ \E n \in {1, 2}, episodes \in {1, 2}, target \in {0, 1, 2} :
          TrainCalled(n, episodes, target)
    /\ SoloIdle
    /\ RunIdle
    /\ AuxIdle

WorkerStart ==
    (\E w \in 1 .. n_workers : WStart(w))
    /\ UNCHANGED <<envVars, agentVars, merged, merge_calls, soloVars, runVars, auxVars, dqnVars>>

WorkerReset ==
    (\E w \in 1 .. n_workers : WReset(w))
    /\ UNCHANGED <<envVars, agentVars, merged, merge_calls, soloVars, runVars, auxVars, dqnVars>>

WorkerStep ==
    (\E w \in 1 .. n_workers : WStep(w))
    /\ UNCHANGED <<envVars, agentVars, merged, merge_calls, soloVars, runVars, auxVars, dqnVars>>

WorkerReturn ==
    (\E w \in 1 .. n_workers : WReturn(w))
    /\ UNCHANGED <<envVars, agentVars, merged, merge_calls, soloVars, runVars, auxVars, dqnVars>>

TrainStartBatch == StartBatch /\ UNCHANGED <<envVars, agentVars, merged, merge_calls, soloVars, runVars, auxVars, dqnVars>>

TrainCollect == Collect /\ UNCHANGED <<envVars, agentVars, merged, merge_calls, soloVars, runVars, auxVars, dqnVars>>

TrainEndLoop == EndLoop /\ UNCHANGED <<envVars, agentVars, merged, merge_calls, soloVars, runVars, auxVars, dqnVars>>

TrainSave == Save /\ UNCHANGED <<envVars, agentVars, merged, merge_calls, soloVars, runVars, auxVars, dqnVars>>

NextT ==
    \/ TrainStartBatch
    \/ WorkerStart
    \/ WorkerReset
    \/ WorkerStep
    \/ WorkerReturn
    \/ TrainCollect
    \/ TrainEndLoop
    \/ TrainSave

SpecT == InitT /\ [][NextT]_vars

\* ------------------------------------------------------------------------
\* The two single-process trainers, each run from its start.

InitP ==
    /\ PinnedEnv
    /\ AgentInit(AgentDefaults)
    /\ MergeInit
    /\ TrainIdle
    /\ \/ \E target \in {1, 2, 3} : SoloStarted("dqn", target)
       \/ SoloStarted("tabular", 0)
    /\ RunIdle
    /\ AuxIdle

DqnTrainEpisode == DqnEpisode /\ UNCHANGED <<envVars, agentVars, mergeVars, trainVars, runVars, auxVars, dqnVars>>

DqnTrainRecord == DqnRecord /\ UNCHANGED <<envVars, agentVars, mergeVars, trainVars, runVars, auxVars, dqnVars>>

DqnTrainTarget == DqnTarget /\ UNCHANGED <<envVars, agentVars, mergeVars, trainVars, runVars, auxVars, dqnVars>>

MainEpisode == TabularEpisode /\ UNCHANGED <<envVars, agentVars, mergeVars, trainVars, runVars, auxVars, dqnVars>>

MainSave == TabularSave /\ UNCHANGED <<envVars, agentVars, mergeVars, trainVars, runVars, auxVars, dqnVars>>

NextP ==
    \/ DqnTrainEpisode
    \/ DqnTrainRecord
    \/ DqnTrainTarget
    \/ MainEpisode
    \/ MainSave

SpecP == InitP /\ [][NextP]_vars

\* ------------------------------------------------------------------------
\* run() of the DQN evaluation, started with and without a checkpoint, on
\* the distance-shaped environment.

InitR ==
    /\ EnvInit
    /\ shaping = TRUE
    /\ AgentInit(AgentDefaults)
    /\ MergeInit
    /\ TrainIdle
    /\ SoloIdle
    /\ \E exists \in BOOLEAN : RunStarted(exists)
    /\ AuxIdle

RunLoad == Load /\ UNCHANGED <<envVars, agentVars, mergeVars, trainVars, soloVars, auxVars, dqnVars>>

RunSetEpsilon ==
    SetEpsilon /\ UNCHANGED <<envVars, agentVars, mergeVars, trainVars, soloVars, auxVars>>

RunEpisodeReset == RunReset /\ UNCHANGED <<agentVars, mergeVars, trainVars, soloVars, auxVars, dqnVars>>

RunEpisodeStep == RunStep /\ UNCHANGED <<agentVars, mergeVars, trainVars, soloVars, auxVars>>

NextR ==
    \/ RunLoad
    \/ RunSetEpsilon
    \/ RunEpisodeReset
    \/ RunEpisodeStep

SpecR == InitR /\ [][NextR]_vars

\* ------------------------------------------------------------------------
\* _place_food called on boards the snake covers in part or wholly, its
\* draws fair: a draw on a free cell is not put off for ever.

InitF ==
    /\ \E n \in 3 .. (width \div block_size) * (height \div block_size) :
          PlaceFoodCalled(n)
    /\ DqnAgentInit
    /\ LoopIdle
    /\ AgentInit(AgentDefaults)
    /\ MergeInit
    /\ TrainIdle
    /\ SoloIdle
    /\ RunIdle

\* the draw lands on the snake: self._place_food() once more
PlaceDrawOccupied ==
    /\ pf_pc = "called"
    /\ \E c \in FoodDraws :
          /\ In(c, snake)
          /\ food' = c
    /\ IF pf_depth + 1 < RecursionLimit
       THEN pf_depth' = pf_depth + 1 /\ pf_pc' = "called"
       ELSE pf_depth' = pf_depth /\ pf_pc' = "raised"
    /\ UNCHANGED <<shaping, direction, head, snake, score, op, prev_over,
                   action, reward, game_over, ret_score>>
    /\ UNCHANGED <<agentVars, mergeVars, trainVars, soloVars, runVars, dqnVars, loopVars>>

\* the draw lands on a free cell: every nested call returns
PlaceDrawFree ==
    /\ pf_pc = "called"
    /\ \E c \in FoodDraws :
          /\ ~In(c, snake)
          /\ food' = c
    /\ pf_depth' = 0
    /\ pf_pc' = "returned"
    /\ UNCHANGED <<shaping, direction, head, snake, score, op, prev_over,
                   action, reward, game_over, ret_score>>
    /\ UNCHANGED <<agentVars, mergeVars, trainVars, soloVars, runVars, dqnVars, loopVars>>

NextF ==
    \/ PlaceDrawOccupied
    \/ PlaceDrawFree

SpecF == InitF /\ [][NextF]_vars /\ WF_vars(PlaceDrawFree)

\* ------------------------------------------------------------------------
\* The DQN trainer seen from its agent: get_action calls, and the end of a
\* game, where train() adds one to agent.n_games.

MaxDqnGames == 82

DqnTrainGetAction ==
    /\ trainer = "dqn"
    /\ dqn_get_action
    /\ UNCHANGED <<envVars, agentVars, mergeVars, trainVars, soloVars, runVars,
                   auxVars>>

DqnTrainGameEnd ==
    /\ trainer = "dqn"
    /\ explored # "none"                          \* the inner loop has run
    /\ dqn_epsilon = epsilon_schedule(n_games)    \* in this game
    /\ n_games < MaxDqnGames
    /\ n_games' = n_games + 1
    /\ UNCHANGED <<trainer, TRAIN_BEST_SCORE, s_pc, ep_score, record, model_file,
                   best_seen, best_at>>
    /\ UNCHANGED <<envVars, agentVars, mergeVars, trainVars, runVars, auxVars,
                   dqnVars>>

InitD ==
    /\ PinnedEnv
    /\ AgentInit(AgentDefaults)
    /\ MergeInit
    /\ TrainIdle
    /\ SoloStarted("dqn", 10)
    /\ RunIdle
    /\ AuxIdle

NextD ==
    \/ DqnTrainGetAction
    \/ DqnTrainGameEnd

SpecD == InitD /\ [][NextD]_vars

\* ------------------------------------------------------------------------
\* The driver loops on the environment: each of the four loops from its
\* first statement, the games played to their end and begun again.

InitL ==
    /\ EnvInit
    /\ \E driver \in {"main", "worker", "dqn_train", "dqn_run"} :
          /\ shaping = (driver # "main")   \* game.py of src/snake_game has no
                                           \* distance reward, the two copies do
          /\ IF driver \in {"main", "worker"}
             THEN \E n \in 1 .. MaxLoopEpisodes : LoopStarted(driver, n, 0)
             ELSE IF driver = "dqn_train"
             THEN \E target \in 1 .. MaxScore : LoopStarted(driver, 0, target)
             ELSE LoopStarted(driver, 0, 0)
    /\ AgentInit(AgentDefaults)
    /\ MergeInit
    /\ TrainIdle
    /\ SoloIdle
    /\ RunIdle
    /\ PlaceIdle
    /\ DqnAgentInit

NextL ==
    \/ LoopReset
    \/ LoopGetAction
    \/ LoopPlayStep
    \/ LoopGetState
    \/ LoopTrain
    \/ LoopClose

SpecL == InitL /\ [][NextL]_vars

\* ========================================================================
\* Properties of the environment, checked under Spec.

\* the cells of a body, as a set
Cells(snk) == {snk[i] : i \in 1 .. Len(snk)}

\* a cell outside the board
OffBoard(c) == c[1] < 0 \/ c[1] >= width \/ c[2] < 0 \/ c[2] >= height

\* no cell occurs at two positions of the body
NoDuplicates(snk) ==
    \A i, j \in 1 .. Len(snk) : i # j => snk[i] # snk[j]

\* C1: a play_step with action 0, 1 or 2 that does not end the episode
\* keeps the body length, except that it adds exactly one when the new head
\* is the food cell.
C1_LengthConserved ==
    [][(op' = "play_step" /\ action' \in {0, 1, 2} /\ ~game_over')
         => Len(snake') = (IF head' = food THEN Len(snake) + 1
                                            ELSE Len(snake))]_vars

C1_Witness ==
    /\ op = "play_step"
    /\ ~game_over
    /\ reward = 10
    /\ Len(snake) = 4

\* C2: with action 0, 1 or 2 the new heading is the old one moved 0, +1 or
\* -1 positions cyclically in [RIGHT, DOWN, LEFT, UP], and the new head is
\* the old head moved one block in the new heading; from the starting snake,
\* going straight onto a cell without food gives the body
\* [new head, old head, old second cell] and does not end the episode.
TurnTable == <<"RIGHT", "DOWN", "LEFT", "UP">>

PositionOf(d) == CHOOSE i \in 1 .. 4 : TurnTable[i] = d

Turned(d, a) ==
    LET shift == IF a = 1 THEN 1 ELSE IF a = 2 THEN 3 ELSE 0
    IN  TurnTable[((PositionOf(d) - 1 + shift) % 4) + 1]

UnitOf(d) ==
    CASE d = "RIGHT" -> <<1, 0>>
      [] d = "DOWN" -> <<0, 1>>
      [] d = "LEFT" -> <<0 - 1, 0>>
      [] d = "UP" -> <<0, 0 - 1>>

C2_HeadMovesOneBlock ==
    [][(op' = "play_step" /\ action' \in {0, 1, 2})
         => /\ direction' = Turned(direction, action')
            /\ head' = <<head[1] + block_size * UnitOf(direction')[1],
                         head[2] + block_size * UnitOf(direction')[2]>>
            /\ snake'[1] = head'
            /\ (/\ op \in {"__init__", "reset"}
                /\ action' = 0
                /\ food # <<head[1] + block_size, head[2]>>)
               => /\ snake' = <<<<head[1] + block_size, head[2]>>,
                                snake[1], snake[2]>>
                  /\ ~game_over']_vars

C2_Witness ==
    /\ op = "play_step"
    /\ action = 2
    /\ direction = "UP"
    /\ head = <<width \div 2, (height \div 2) - block_size>>
    /\ ~game_over

\* C3: play_step returns game_over = TRUE exactly when the new head is off
\* the board or is a cell of the body as it was before the step, tail
\* included.
C3_GameOverIffCollision ==
    [][op' = "play_step"
         => (game_over' <=> (OffBoard(head') \/ head' \in Cells(snake)))]_vars

C3_Witness ==
    /\ op = "play_step"
    /\ game_over
    /\ ~OffBoard(head)
    /\ head = snake[Len(snake)]

\* C4: the food cell is never a cell of the snake body.
C4_FoodNotOnSnake == food \notin Cells(snake)

C4_Witness ==
    /\ op = "play_step"
    /\ reward = 10
    /\ score = 2
    /\ Len(snake) = 5

\* C5 as claimed: the body never contains the same cell twice, in any
\* reachable state.
C5_NoDuplicateCells == NoDuplicates(snake)

\* C5 as amended: while the episode has not ended the body never contains
\* the same cell twice; in the state a terminating step leaves, only the new
\* head can repeat a cell.
C5_NoDuplicatesUnlessOver ==
    /\ ~game_over => NoDuplicates(snake)
    /\ NoDuplicates(Rest(snake))

C5_Witness ==
    /\ op = "play_step"
    /\ ~game_over
    /\ Len(snake) = 5
    /\ Abs(head[1] - snake[4][1]) + Abs(head[2] - snake[4][2]) = block_size

\* C6: whatever action value is passed, the heading after a play_step is
\* not the opposite of the heading before it, and the new head is not the
\* cell of the second segment of the body before the step.
Opposite(d) ==
    CASE d = "RIGHT" -> "LEFT"
      [] d = "LEFT" -> "RIGHT"
      [] d = "UP" -> "DOWN"
      [] d = "DOWN" -> "UP"

C6_NeverReverses ==
    [][op' = "play_step"
         => /\ direction' # Opposite(direction)
            /\ head' # snake[2]]_vars

C6_Witness ==
    /\ op = "play_step"
    /\ action = 3
    /\ direction = "LEFT"

\* C7: a step whose new head is the food cell and which does not collide
\* adds exactly 1 to the score, returns reward 10 and leaves the food on a
\* grid cell outside the grown body; every other step leaves the score
\* alone; reset sets it to 0; the score is never negative.
C7_ScoreCountsFood ==
    [][/\ op' = "play_step"
          => IF head' = food /\ ~game_over'
             THEN /\ score' = score + 1
                  /\ ret_score' = score + 1
                  /\ reward' = 10
                  /\ Len(snake') = Len(snake) + 1
                  /\ food' \notin Cells(snake')
                  /\ ~OffBoard(food')
             ELSE score' = score
       /\ op' = "reset" => score' = 0
       /\ score' >= 0]_vars

C7_Witness ==
    /\ op = "play_step"
    /\ reward = 10
    /\ score = 1
    /\ ret_score = 1
    /\ head = snake[1]

\* C8: a step whose new head is off the board or on the body returns reward
\* -10 and game_over = TRUE, returns and keeps the score of before, leaves
\* the food where it was and keeps the tail: the body is the new head
\* followed by the whole body of before.
C8_TerminatingStep ==
    [][(op' = "play_step" /\ (OffBoard(head') \/ head' \in Cells(snake)))
         => /\ reward' = 0 - 10
            /\ game_over' = TRUE
            /\ ret_score' = score
            /\ score' = score
            /\ food' = food
            /\ Len(snake') = Len(snake) + 1
            /\ snake' = <<head'>> \o snake]_vars

C8_Witness ==
    /\ op = "play_step"
    /\ game_over
    /\ head[1] = 0 - block_size
    /\ reward = 0 - 10

\* C9: reset, called in any state, leaves a 3-cell horizontal snake with
\* its head at (width // 2, height // 2) and the two cells to its left,
\* heading RIGHT, score 0, the food on a grid cell outside that snake.
C9_ResetState ==
    [][op' = "reset"
         => /\ head' = <<width \div 2, height \div 2>>
            /\ snake' = <<head',
                          <<head'[1] - block_size, head'[2]>>,
                          <<head'[1] - 2 * block_size, head'[2]>>>>
            /\ direction' = "RIGHT"
            /\ score' = 0
            /\ food' \notin Cells(snake')
            /\ ~OffBoard(food')
            /\ food'[1] % block_size = 0
            /\ food'[2] % block_size = 0]_vars

C9_Witness ==
    /\ op = "reset"
    /\ prev_over
    /\ direction = "RIGHT"
    /\ score = 0

\* ========================================================================
\* Properties of the tabular update, checked under SpecQ.

\* the list stored for the next state as it was before the write: the
\* write changed one entry of one list, from call.predict
NextBefore(c) ==
    IF c.next_state = c.state
    THEN [q_table[c.state] EXCEPT ![c.action + 1] = c.predict]
    ELSE q_table[c.next_state]

\* the largest of the three numbers of a list
Largest(vec) ==
    CHOOSE v \in {vec[i] : i \in 1 .. 3} : \A i \in 1 .. 3 : RLeq(vec[i], v)

\* r if done, else r + gamma * max Q[s'] as read before the write
ClaimedTarget(c) ==
    IF c.done THEN <<c.reward, 1>>
    ELSE RAdd(<<c.reward, 1>>, RMul(gamma, Largest(NextBefore(c))))

\* |x - y|
Gap(x, y) == RAbs(RSub(x, y))

\* C10: after train_short_memory(s, a, r, s', done) the entry Q[s][a] is no
\* farther from the target (r if done, else r + gamma * max Q[s'] read
\* before the write) than the entry it replaced, for every parameter set of
\* the trainers, s = s' included.
C10_UpdateMovesTowardTarget ==
    call.fn = "train_short_memory"
      => RLeq(Gap(q_table[call.state][call.action + 1], ClaimedTarget(call)),
              Gap(call.predict, ClaimedTarget(call)))

C10_Witness ==
    /\ call.fn = "train_short_memory"
    /\ n_updates = 2
    /\ call.state = call.next_state
    /\ ~call.done
    /\ call.reward = 0 - 10
    /\ lr = <<1, 20>>
    /\ q_table[call.state][call.action + 1] = <<0 - 1, 800>>

\* ========================================================================
\* Properties of merge_q_tables, checked under SpecM.

\* the positions of the input tables that hold the key
Holders(key) == {i \in 1 .. Len(q_tables) : key \in DOMAIN q_tables[i]}

\* the sum of entry j of the key over the holders among the first n tables
RECURSIVE SumOver(_, _, _)
SumOver(key, j, n) ==
    IF n = 0 THEN <<0, 1>>
    ELSE IF n \in Holders(key)
    THEN RAdd(SumOver(key, j, n - 1), q_tables[n][key][j])
    ELSE SumOver(key, j, n - 1)

\* C11: the table merge_q_tables returns has the union of the input key
\* sets as its keys, and for a key held by k of the tables each entry is the
\* sum of that entry over those k tables divided by k.
C11_MergeIsMeanOfHolders ==
    merge_calls > 0
      => /\ DOMAIN merged = UNION {DOMAIN q_tables[i] : i \in 1 .. Len(q_tables)}
         /\ \A key \in DOMAIN merged : \A j \in 1 .. 3 :
               RMul(merged[key][j], <<Cardinality(Holders(key)), 1>>)
                 = SumOver(key, j, Len(q_tables))

C11_Witness ==
    /\ merge_calls > 0
    /\ Len(q_tables) = 3
    /\ \E key \in DOMAIN merged :
          /\ Cardinality(Holders(key)) = 2
          /\ merged[key] = <<<<3, 4>>, <<3, 2>>, <<0 - 5, 1>>>>

\* ========================================================================
\* Properties of the multi-worker trainer, checked under SpecT.

\* C12: whenever train() stands between two batches or past the last one,
\* merge_q_tables has been applied once for every batch run so far.
C12_MergedAfterEveryBatch ==
    t_pc \in {"while", "save", "end"} => merge_calls = batch

\* what the steps of the workers must leave alone
orchestratorVars ==
    <<n_workers, episodes_per_worker, target_score, t_pc, best_overall_score,
      best_q_table, batch, results, qtable_trained, q_tables>>

\* the saved object is a table a worker built and returned with the final
\* best_overall_score, and that score is the largest ever returned
SavedIsBestWorkersTable ==
    /\ qtable_trained # None
    /\ qtable_trained.made_by[1] \in 1 .. batch
    /\ qtable_trained.made_by[2] \in 0 .. n_workers - 1
    /\ qtable_trained.score = best_overall_score
    /\ best_overall_score = max_returned

\* C13 as stated: when train() has finished, the saved table is the table
\* one worker returned with a best score equal to the final
\* best_overall_score, the largest best score of all workers of all batches.
C13_SavedIsBestWorkersTable ==
    t_pc = "end" => SavedIsBestWorkersTable

\* C13, amended: the same for a call with target_score >= 1; a call with
\* target_score <= 0 saves None.
C13_SavedIsBestWorkersTableForPositiveTarget ==
    t_pc = "end" => IF target_score >= 1
                    THEN SavedIsBestWorkersTable
                    ELSE qtable_trained = None

C13_Witness ==
    /\ t_pc = "end"
    /\ target_score = 1
    /\ n_workers = 2
    /\ batch = 2
    /\ qtable_trained.made_by = <<2, 1>>
    /\ results[1].score = 0

\* what C14 says of one step of train()
BatchIffTargetNotReached ==
    /\ (t_pc = "while" /\ t_pc' # "while") => ((batch' = batch + 1) <=> ~reached)
    /\ t_pc' \in {"save", "end"} => (batch >= 1 /\ best_overall_score >= target_score)
    /\ best_overall_score' >= best_overall_score

\* C14 as stated: train() starts another batch exactly if no worker of an
\* earlier batch returned a best score >= target_score, leaves the loop only
\* after a batch that left best_overall_score >= target_score, and
\* best_overall_score never decreases.
C14_BatchIffTargetNotReached ==
    [][BatchIffTargetNotReached]_vars

\* C14, amended: the same for a call with target_score >= 1; a call with
\* target_score <= 0 starts no batch.
C14_BatchIffTargetNotReachedForPositiveTarget ==
    [][IF target_score >= 1
       THEN BatchIffTargetNotReached
       ELSE batch' = 0 /\ best_overall_score' = 0]_vars

C14_Witness ==
    /\ t_pc = "end"
    /\ target_score = 1
    /\ batch = 2
    /\ reached
    /\ best_overall_score = 1

\* C20: a step of a worker changes the locals of that worker only and
\* nothing of the orchestrator; a worker starting a task has an empty
\* Q-table of its own and the initial epsilon of its preset; train() takes
\* results and selects the best table only when every worker of the batch
\* has returned.
C20_WorkersShareNothing ==
    [][/\ \A w \in 1 .. n_workers :
             workers'[w] # workers[w]
               => /\ \A v \in (1 .. n_workers) \ {w} : workers'[v] = workers[v]
                  /\ UNCHANGED orchestratorVars
       /\ \A w \in 1 .. n_workers :
             workers'[w].task # workers[w].task
               => /\ workers'[w].q_table.made_by = <<batch, w - 1>>
                  /\ workers'[w].q_table.writes = 0
                  /\ workers'[w].epsilon = HYPERPARAMS[((w - 1) % 4) + 1].epsilon
       /\ (best_q_table' # best_q_table \/ results' # results)
             => \A w \in 1 .. n_workers :
                   workers[w].task = batch /\ workers[w].pc = "returned"
      ]_vars

C20_Witness ==
    /\ n_workers = 2
    /\ batch = 2
    /\ workers[1].task = 2
    /\ workers[1].q_table.writes = 0
    /\ workers[1].epsilon = <<1, 1>>
    /\ workers[2].task = 1
    /\ workers[2].q_table.writes = 4
    /\ workers[2].epsilon # <<1, 1>>

\* ========================================================================
\* Properties of the exploration rate, checked under SpecE.

\* C15: for an Agent constructed with epsilon >= epsilon_min, epsilon is never
\* below epsilon_min, whatever train_short_memory calls have been made.
C15_EpsilonNeverBelowMin ==
    RLeq(epsilon_min, epsilon)

\* ========================================================================
\* Properties of the agent's reads of the environment.

\* C16: for a step play_step(a) with a in {0, 1, 2} taken in a non-terminal
\* state, the a-th danger flag get_state returns in that state is 1 exactly
\* if the step ends the episode.
C16_DangerFlagsAgreeWithStep ==
    [][(op' = "play_step" /\ action' \in {0, 1, 2} /\ ~game_over)
          => (get_state(direction, head, snake, food)[action' + 1] = 1
                <=> game_over')]_vars

\* a step to the right ended the episode on the cell the tail was on
C16_Witness ==
    /\ op = "play_step"
    /\ action = 1
    /\ game_over
    /\ Len(snake) >= 5
    /\ head = snake[Len(snake)]
    /\ ~OffBoard(head)

SavedAtEveryNewBest ==
    best_at > 0 => (model_file = best_at /\ record = best_seen)

\* C18 as stated: in either single-process trainer, whenever the next
\* episode is about to start or training has ended, the model has been
\* saved at the end of the last episode whose score exceeded the running
\* best, and the running best is that score.
C18_SavedAtEveryNewBest ==
    s_pc \in {"episode", "end"} => SavedAtEveryNewBest

\* C18, amended: the DQN trainer does so; the tabular trainer has no file
\* until its episodes are exhausted and then saves the model of the last
\* episode, whatever the scores were.
C18_SavedAtEveryNewBestInDqn ==
    /\ (trainer = "dqn" /\ s_pc \in {"episode", "target", "end"})
          => SavedAtEveryNewBest
    /\ trainer = "tabular"
          => /\ record = 0
             /\ model_file = IF s_pc = "end" THEN n_episodes ELSE NoFile

C18_Witness ==
    /\ trainer = "dqn"
    /\ s_pc = "episode"
    /\ n_games = 3
    /\ best_seen = 2
    /\ best_at = 2
    /\ model_file = 2
    /\ ep_score = 1

\* ========================================================================
\* Properties of the evaluation run, checked under SpecR.

\* C19: with the checkpoint file missing, the load does not fail the run:
\* once the load has been attempted, run() goes on, with a model that was
\* not loaded.
C19_MissingCheckpointDoesNotFailRun ==
    (~checkpoint_exists /\ r_pc # "load")
       => (r_pc \in {"epsilon", "reset", "step"} /\ ~model_loaded)

\* ========================================================================
\* Further properties of the environment, checked under Spec.

\* C22: a step that neither ends the episode nor eats returns, in a
\* distance-shaped environment, +1 if the new head is strictly nearer to the
\* food (Manhattan distance) than the old head was and -1 otherwise, and in
\* the baseline environment 0; no step returns anything but -10, +10 and
\* these.
C22_ShapedRewards ==
    [][op' = "play_step"
          => /\ (~game_over' /\ score' = score)
                  => reward' =
                        IF ~shaping THEN 0
                        ELSE IF Abs(head'[1] - food[1]) + Abs(head'[2] - food[2])
                                  < Abs(head[1] - food[1]) + Abs(head[2] - food[2])
                             THEN 1
                             ELSE 0 - 1
             /\ reward' \in {0 - 10, 10} \cup (IF shaping THEN {1, 0 - 1} ELSE {0})
      ]_vars

\* a shaped step away from the food, after the snake has eaten
C22_Witness ==
    /\ op = "play_step"
    /\ shaping
    /\ ~game_over
    /\ reward = 0 - 1
    /\ score >= 1

\* C27: in every non-terminal state the body has score + 3 cells; in the
\* state a terminating step leaves it has score + 4.
C27_LengthIsScorePlusThree ==
    Len(snake) = IF game_over THEN score + 4 ELSE score + 3

C27_Witness ==
    /\ game_over
    /\ score = 2
    /\ Len(snake) = 6

\* two cells one block apart on exactly one axis
Adjacent(c, e) ==
    \/ c[1] = e[1] /\ (c[2] - e[2] = block_size \/ e[2] - c[2] = block_size)
    \/ c[2] = e[2] /\ (c[1] - e[1] = block_size \/ e[1] - c[1] = block_size)

\* a cell of the block grid inside the board
OnBoardGrid(c) ==
    /\ c[1] \in {block_size * i : i \in 0 .. (width \div block_size) - 1}
    /\ c[2] \in {block_size * j : j \in 0 .. (height \div block_size) - 1}

\* C28: the body starts with the head field and each two consecutive cells
\* are one block apart on exactly one axis; in a non-terminal state every
\* body cell and the food are cells of the block grid inside the board.
C28_HeadFirstChainOnBoard ==
    /\ snake[1] = head
    /\ \A i \in 1 .. Len(snake) - 1 : Adjacent(snake[i], snake[i + 1])
    /\ ~game_over => /\ \A i \in 1 .. Len(snake) : OnBoardGrid(snake[i])
                     /\ OnBoardGrid(food)

\* a body of five cells that has turned
C28_Witness ==
    /\ ~game_over
    /\ op = "play_step"
    /\ Len(snake) = 5
    /\ snake[1][1] # snake[5][1]
    /\ snake[1][2] # snake[5][2]

\* ========================================================================
\* Properties of _place_food, checked under SpecF.

\* some cell of the board is not in the snake
SomeCellFree == \E c \in FoodDraws : ~In(c, snake)

\* C25: a call of _place_food on a board with a free cell completes, and a
\* call on a board the snake covers wholly never completes.
C25_PlaceFoodCompletesIffCellFree ==
    /\ (pf_pc = "called" /\ SomeCellFree) ~> (pf_pc = "returned")
    /\ [](~SomeCellFree => pf_pc # "returned")

\* ========================================================================
\* Properties of the DQN agent's exploration.

\* C21: in the evaluation run, once agent.epsilon has been set to 0, no
\* action get_action returns is a random one.  Checked under SpecR.
C21_EvaluationNeverExplores ==
    r_pc \in {"reset", "step"} => explored # "random"

\* C24: in DQN training every get_action leaves epsilon at
\* max(0, 80 - n_games), never above what the call before left, and with
\* n_games >= 80 the action is the argmax.  Checked under SpecD.
C24_ExplorationSchedule ==
    [][n_games' = n_games
          => /\ explored' \in {"random", "argmax"}
             /\ (n_games <= 80 => dqn_epsilon' = 80 - n_games)
             /\ (n_games >= 80 => dqn_epsilon' = 0 /\ explored' = "argmax")
             /\ (explored # "none" => dqn_epsilon' <= dqn_epsilon)
      ]_vars

C24_Witness ==
    /\ trainer = "dqn"
    /\ n_games = 81
    /\ dqn_epsilon = 0
    /\ explored = "argmax"

\* ------------------------------------------------------------------------
\* C23: train_short_memory(s, a, r, s', done) changes only the value
\* Q[s][a]: the keys afterwards are the old keys with s and s' added, every
\* other stored value is what it was, an entry created for s or s' is all
\* zeros, and when done is true the new Q[s][a] is old + lr * (r - old),
\* whatever is stored for s'.

\* the entry of key k before the call, an absent one read as it is created
EntryBefore(k) ==
    IF k \in DOMAIN q_table THEN q_table[k] ELSE ZeroVector

UpdateTouchesOneValue ==
    LET s == call'.state
        s2 == call'.next_state
        i == call'.action + 1
        old == EntryBefore(s)[i]
    IN  n_updates' = n_updates + 1
        => /\ DOMAIN q_table' = (DOMAIN q_table) \cup {s, s2}
           /\ \A k \in DOMAIN q_table' :
                 /\ Len(q_table'[k]) = n_actions
                 /\ \A j \in 1 .. n_actions :
                       (k # s \/ j # i) => q_table'[k][j] = EntryBefore(k)[j]
           /\ call'.done
                 => q_table'[s][i] =
                      RAdd(old, RMul(lr, RSub(FromInt(call'.reward), old)))

C23_UpdateTouchesOneValue ==
    [][UpdateTouchesOneValue]_vars

\* a terminal update on s made while a positive value is stored for another s'
C23_Witness ==
    /\ call.fn = "train_short_memory"
    /\ call.done
    /\ call.state # call.next_state
    /\ n_updates = 2
    /\ RLess(FromInt(0), RMax(q_table[call.next_state]))

\* ------------------------------------------------------------------------
\* C30: in train() of the multi-worker trainer best_q_table is None exactly
\* while best_overall_score is 0; otherwise it is the table returned with
\* the score equal to best_overall_score, by the first worker in batch and
\* worker-index order to return that score; a call with target_score <= 0
\* runs no batch and saves None.

\* the least index of the results of this batch with the given score
FirstWith(res, sc) ==
    CHOOSE w \in 1 .. Len(res) :
        /\ res[w].score = sc
        /\ \A v \in 1 .. (w - 1) : res[v].score # sc

BestTableMatchesBestScore ==
    /\ (best_q_table = None) <=> (best_overall_score = 0)
    /\ best_q_table # None
          => /\ best_q_table.score = best_overall_score
             /\ best_q_table.made_by[1] \in 1 .. batch
             /\ best_q_table.made_by[2] \in 0 .. n_workers - 1
    /\ target_score <= 0 => batch = 0
    /\ (target_score <= 0 /\ t_pc = "end") => qtable_trained = None

\* no earlier result had the new best score, and of the results of this
\* batch the first with that score gives the table; a batch that brings no
\* larger score leaves the table alone
BestTableIsFirstToReach ==
    IF best_overall_score' # best_overall_score
    THEN /\ max_returned < best_overall_score'
         /\ best_q_table' =
               results'[FirstWith(results', best_overall_score')].q_table
         /\ best_q_table'.made_by =
               <<batch, FirstWith(results', best_overall_score') - 1>>
    ELSE best_q_table' = best_q_table

C30_BestTableIsFirstToReachBestScore ==
    /\ []BestTableMatchesBestScore
    /\ [][BestTableIsFirstToReach]_vars

\* a second batch whose first worker only equals the best of the first
\* batch, the table of the first batch being kept
C30_Witness ==
    /\ t_pc = "while"
    /\ n_workers = 2
    /\ batch = 2
    /\ best_overall_score = 1
    /\ results[1].score = 1
    /\ results[2].score = 1
    /\ best_q_table.made_by[1] = 1

\* ------------------------------------------------------------------------
\* Properties of the driver loops, checked under SpecL.

\* the loops that update their agent
TrainingDrivers == {"main", "worker", "dqn_train"}

\* the transition of the last play_step: the state it began on, its
\* argument, what it returned, and the state it left
LastTransition ==
    [fn |-> "train_short_memory", state |-> l_before, action |-> action,
     reward |-> reward, next_state |-> Observed, done |-> game_over]

\* C26: in the three training loops every play_step is followed by exactly
\* one update of the agent, made on the transition of that step (state
\* before, action, reward, state after, done), the terminating step
\* included, before the next action is chosen or the episode is closed.
C26_OneUpdatePerStepOnThatTransition ==
    l_driver \in TrainingDrivers
    => /\ l_pending \in {0, 1}
       /\ (l_pending = 1) <=> (l_pc \in {"get_state", "train"})
       /\ (l_pending = 0 /\ op = "play_step") => l_call = LastTransition

\* the DQN trainer about to close an episode, the update made on the
\* terminating step, the step before it made from another state
C26_Witness ==
    /\ l_driver = "dqn_train"
    /\ l_pc = "close"
    /\ l_call.done
    /\ l_call.reward = 0 - 10
    /\ l_call.state # l_call.next_state
    /\ l_call.state # get_state("RIGHT", StartHead, StartSnake, food)

\* C29: in the four driver loops an action is chosen and play_step is
\* called only on a game that is not over, and no play_step was made on a
\* game whose last step had returned game_over = True: between a
\* terminating step and the next play_step there is a reset().
C29_ResetBetweenEpisodes ==
    /\ l_pc \in {"get_action", "play_step"} => ~game_over
    /\ op = "play_step" => ~prev_over

\* the evaluation run about to make the first step of a game it began
\* after a terminating step
C29_Witness ==
    /\ l_driver = "dqn_run"
    /\ l_pc = "play_step"
    /\ op = "reset"
    /\ prev_over

====
